---- MODULE Spec2Model ----
(***************************************************************************)
(* A model of rama's proxy authorities (http/layer/proxy_auth/auth.rs)     *)
(* and of its URI path matcher (http/service/web/matcher/path/mod.rs).     *)
(*                                                                         *)
(* A Rust string is a sequence of characters, a character a one-letter     *)
(* TLA+ string ("U+00C9" and "U+00E9" name the non-ASCII letters E-acute   *)
(* in upper and lower case).  Option<T> is a sequence of length at most    *)
(* one: <<>> is None and <<x>> is Some(x).                                 *)
(***************************************************************************)
EXTENDS Integers, Sequences, FiniteSets, TLC

VARIABLES
    pc,            \* position of the caller: "ready" before the call, then the call made
    authority,     \* the stored authority records, in declared / stored order
    container,     \* "single", "tuple" or "vec": what holds the records; "none" without authority
    label,         \* the L type parameter: "unit" for (), "UsernameConfig" for the filter
    credentials,   \* the presented Basic credential
    ext,           \* the Extensions the call writes into
    ret,           \* the bool returned by the synchronous call / Matcher::matches
    probed,        \* indices of the records whose authorized() was called, in call order
    facts,         \* Option<Extensions> returned by the asynchronous call
    pattern,       \* the string given to PathFilter::new
    matcher,       \* PathFilter.matcher
    path,          \* the request path handed to the matcher
    result,        \* Option<UriParams> returned by matches_path
    projected      \* Option<Result<T, _>> returned by UriParams::deserialize

vars == <<pc, authority, container, label, credentials, ext, ret, probed, facts,
          pattern, matcher, path, result, projected>>

authVars == <<authority, container, label, credentials, probed, facts>>
pathVars == <<pattern, matcher, path, result, projected>>

----------------------------------------------------------------------------
(* Bounds of the model.                                                    *)

MaxAuth == 3        \* records in a tuple or Vec
MaxDirLen == 3      \* characters after the delimiter in a presented username
MaxPatLen == 4      \* characters of a route pattern
MaxPathLen == 4     \* characters of a request path

----------------------------------------------------------------------------
(* Strings.                                                                *)

None == <<>>
Some(x) == <<x>>
IsSome(o) == Len(o) = 1
Unwrap(o) == o[1]

Strings(alphabet, maxlen) == UNION {[1..n -> alphabet] : n \in 0..maxlen}

\* char::is_whitespace, on the characters of the model
IsWhitespace(c) == c \in {" ", "\t", "\n", "\r"}

\* char::to_lowercase (Unicode)
CharToLowercase(c) ==
    CASE c = "A" -> "a"
      [] c = "B" -> "b"
      [] c = "U" -> "u"
      [] c = "P" -> "p"
      [] c = "U+00C9" -> "U+00E9"
      [] OTHER -> c

\* u8::to_ascii_lowercase: only 'A'..='Z' change
CharToAsciiLowercase(c) ==
    CASE c = "A" -> "a"
      [] c = "B" -> "b"
      [] c = "U" -> "u"
      [] c = "P" -> "p"
      [] OTHER -> c

\* str::to_lowercase
to_lowercase(s) == [i \in 1..Len(s) |-> CharToLowercase(s[i])]

\* str::eq_ignore_ascii_case
eq_ignore_ascii_case(a, b) ==
    /\ Len(a) = Len(b)
    /\ \A i \in 1..Len(a) : CharToAsciiLowercase(a[i]) = CharToAsciiLowercase(b[i])

\* the length of the longest prefix / suffix of s made of characters in cs
RECURSIVE PrefixIn(_, _)
PrefixIn(s, cs) ==
    IF s # <<>> /\ Head(s) \in cs THEN 1 + PrefixIn(Tail(s), cs) ELSE 0

RECURSIVE SuffixIn(_, _)
SuffixIn(s, cs) ==
    IF s # <<>> /\ s[Len(s)] \in cs THEN 1 + SuffixIn(SubSeq(s, 1, Len(s) - 1), cs) ELSE 0

TrimIn(s, cs) ==
    LET a == PrefixIn(s, cs)
    IN  IF a = Len(s) THEN <<>> ELSE SubSeq(s, a + 1, Len(s) - SuffixIn(s, cs))

\* str::trim
trim(s) == TrimIn(s, {c \in {s[i] : i \in 1..Len(s)} : IsWhitespace(c)})

\* str::trim_matches(c)
trim_matches(s, c) == TrimIn(s, {c})

\* str::trim_start_matches(c)
trim_start_matches(s, c) == SubSeq(s, PrefixIn(s, {c}) + 1, Len(s))

\* str::contains([..])
contains(s, cs) == \E i \in 1..Len(s) : s[i] \in cs

\* str::split(c), collected: always at least one piece
RECURSIVE split(_, _)
split(s, c) ==
    IF ~contains(s, {c}) THEN <<s>>
    ELSE LET i == CHOOSE k \in 1..Len(s) : s[k] = c /\ \A j \in 1..(k - 1) : s[j] # c
         IN  <<SubSeq(s, 1, i - 1)>> \o split(SubSeq(s, i + 1, Len(s)), c)

\* Iterator::filter, collected
RECURSIVE FilterNonEmpty(_)
FilterNonEmpty(parts) ==
    IF parts = <<>> THEN <<>>
    ELSE IF Len(Head(parts)) = 0 THEN FilterNonEmpty(Tail(parts))
         ELSE <<Head(parts)>> \o FilterNonEmpty(Tail(parts))

----------------------------------------------------------------------------
(* Extensions: the type-indexed store; one slot per type written here.     *)

EmptyExt == [basic |-> None, filter |-> None, uri |-> None]

\* Extensions::insert::<T>: overwrite by type
ExtInsert(e, slot, value) == [e EXCEPT ![slot] = Some(value)]

\* Authorization::basic(username, password).0
Basic(username, password) == [username |-> username, password |-> password]

----------------------------------------------------------------------------
(* UsernameConfig<C>: the username filter grammar.                         *)

\* the const generic C of UsernameConfig<C>
Delim == "-"

DefaultFilter == [country |-> None, datacenter |-> FALSE]

\* one directive of the list: key=value for the key "c" (country), the bare
\* flag "d" (datacenter); anything else is dropped
ApplyDirective(f, d) ==
    CASE d = <<"d">> -> [f EXCEPT !.datacenter = TRUE]
      [] Len(d) >= 3 /\ SubSeq(d, 1, 2) = <<"c", "=">>
            -> [f EXCEPT !.country = Some(SubSeq(d, 3, Len(d)))]
      [] OTHER -> f

RECURSIVE ApplyDirectives(_, _)
ApplyDirectives(f, ds) ==
    IF ds = <<>> THEN f ELSE ApplyDirectives(ApplyDirective(f, Head(ds)), Tail(ds))

\* username.parse::<UsernameConfig<C>>() followed by into_parts():
\* ok = FALSE is the Err the callers fall back on
UsernameConfigParse(raw) ==
    IF ~contains(raw, {Delim})
    THEN [ok |-> FALSE, username |-> raw, filter |-> None]
    ELSE LET i == CHOOSE k \in 1..Len(raw) :
                      raw[k] = Delim /\ \A j \in 1..(k - 1) : raw[j] # Delim
             f == ApplyDirectives(DefaultFilter, split(SubSeq(raw, i + 1, Len(raw)), ","))
         IN  [ok |-> TRUE,
              username |-> SubSeq(raw, 1, i - 1),
              filter |-> IF f = DefaultFilter THEN None ELSE Some(f)]

----------------------------------------------------------------------------
(* ProxyAuthoritySync for the primitive records.  A call yields            *)
(* [ret, ext]: the bool returned and the Extensions as the call left them. *)

Rejected(e) == [ret |-> FALSE, ext |-> e]
Accepted(e) == [ret |-> TRUE, ext |-> e]

\* the Basic a stored record of kind "Basic" is
SelfBasic(self) == Basic(self.username, self.password)

\* impl ProxyAuthoritySync<Basic, ()> for Basic
BasicAuthorized(self, e, cred) ==
    IF SelfBasic(self) = cred
    THEN Accepted(ExtInsert(e, "basic", SelfBasic(self)))
    ELSE Rejected(e)

\* the tail shared by the three UsernameConfig impls, after a successful parse
FilterTail(stored_username, t, e, password) ==
    IF t.username # stored_username
    THEN Rejected(e)
    ELSE LET e1 == IF IsSome(t.filter) THEN ExtInsert(e, "filter", Unwrap(t.filter)) ELSE e
         IN  Accepted(ExtInsert(e1, "basic", Basic(t.username, password)))

\* the password compared only on the fallback path, not before the parse
BasicAuthorizedFilterLatePassword(self, e, cred) ==
    LET t == UsernameConfigParse(cred.username)
    IN  IF ~t.ok
        THEN IF SelfBasic(self) = cred
             THEN Accepted(ExtInsert(e, "basic", SelfBasic(self)))
             ELSE Rejected(e)
        ELSE FilterTail(self.username, t, e, cred.password)

\* the presented credential echoed instead of the canonical one
BasicAuthorizedFilterEcho(self, e, cred) ==
    IF cred.password # self.password
    THEN Rejected(e)
    ELSE LET t == UsernameConfigParse(cred.username)
         IN  IF ~t.ok
             THEN IF SelfBasic(self) = cred
                  THEN Accepted(ExtInsert(e, "basic", SelfBasic(self)))
                  ELSE Rejected(e)
             ELSE IF t.username # self.username
                  THEN Rejected(e)
                  ELSE LET e1 == IF IsSome(t.filter)
                                 THEN ExtInsert(e, "filter", Unwrap(t.filter)) ELSE e
                       IN  Accepted(ExtInsert(e1, "basic", cred))

\* impl ProxyAuthoritySync<Basic, UsernameConfig<C>> for Basic
BasicAuthorizedFilter(self, e, cred) ==
    IF cred.password # self.password
    THEN Rejected(e)
    ELSE LET t == UsernameConfigParse(cred.username)
         IN  IF ~t.ok
             THEN IF SelfBasic(self) = cred
                  THEN Accepted(ExtInsert(e, "basic", SelfBasic(self)))
                  ELSE Rejected(e)
             ELSE FilterTail(self.username, t, e, cred.password)

\* a comparison that ignores ASCII case where the code compares exactly
StrPairAuthorizedIgnoreCase(self, e, cred) ==
    IF /\ eq_ignore_ascii_case(self.username, cred.username)
       /\ eq_ignore_ascii_case(self.password, cred.password)
    THEN Accepted(ExtInsert(e, "basic", Basic(self.username, self.password)))
    ELSE Rejected(e)

\* impl ProxyAuthoritySync<Basic, ()> for (&'static str, &'static str)
StrPairAuthorized(self, e, cred) ==
    IF self.username = cred.username /\ self.password = cred.password
    THEN Accepted(ExtInsert(e, "basic", Basic(self.username, self.password)))
    ELSE Rejected(e)

\* impl ProxyAuthoritySync<Basic, UsernameConfig<C>> for (&'static str, &'static str)
StrPairAuthorizedFilter(self, e, cred) ==
    IF cred.password # self.password
    THEN Rejected(e)
    ELSE LET t == UsernameConfigParse(cred.username)
         IN  IF ~t.ok
             THEN IF self.username = cred.username /\ self.password = cred.password
                  THEN Accepted(ExtInsert(e, "basic", Basic(self.username, self.password)))
                  ELSE Rejected(e)
             ELSE FilterTail(self.username, t, e, cred.password)

\* impl ProxyAuthoritySync<Basic, ()> for (String, String)
StringPairAuthorized(self, e, cred) ==
    IF self.username = cred.username /\ self.password = cred.password
    THEN Accepted(ExtInsert(e, "basic", Basic(self.username, self.password)))
    ELSE Rejected(e)

\* impl ProxyAuthoritySync<Basic, UsernameConfig<C>> for (String, String)
StringPairAuthorizedFilter(self, e, cred) ==
    IF cred.password # self.password
    THEN Rejected(e)
    ELSE LET t == UsernameConfigParse(cred.username)
         IN  IF ~t.ok
             THEN IF self.username = cred.username /\ self.password = cred.password
                  THEN Accepted(ExtInsert(e, "basic", Basic(self.username, self.password)))
                  ELSE Rejected(e)
             ELSE FilterTail(self.username, t, e, cred.password)

\* trait dispatch on the record's type and on L
PrimitiveAuthorized(self, l, e, cred) ==
    CASE self.kind = "Basic" /\ l = "unit" -> BasicAuthorized(self, e, cred)
      [] self.kind = "Basic" /\ l = "UsernameConfig" -> BasicAuthorizedFilter(self, e, cred)
      [] self.kind = "StrPair" /\ l = "unit" -> StrPairAuthorized(self, e, cred)
      [] self.kind = "StrPair" /\ l = "UsernameConfig" -> StrPairAuthorizedFilter(self, e, cred)
      [] self.kind = "StringPair" /\ l = "unit" -> StringPairAuthorized(self, e, cred)
      [] self.kind = "StringPair" /\ l = "UsernameConfig"
            -> StringPairAuthorizedFilter(self, e, cred)

----------------------------------------------------------------------------
(* The compositions.  A call yields [ret, ext, probed]; probed lists the   *)
(* elements whose authorized() ran, in the order they ran.                 *)

\* a || b || ... over the elements from i on: the right operand of || runs
\* only when the left one is false
RECURSIVE OrChain(_, _, _, _, _, _)
OrChain(elems, i, l, e, cred, seen) ==
    IF i > Len(elems)
    THEN [ret |-> FALSE, ext |-> e, probed |-> seen]
    ELSE LET r == PrimitiveAuthorized(elems[i], l, e, cred)
         IN  IF r.ret
             THEN [ret |-> TRUE, ext |-> r.ext, probed |-> Append(seen, i)]
             ELSE OrChain(elems, i + 1, l, r.ext, cred, Append(seen, i))

\* every element evaluated, the results or-ed: a | b | ...
RECURSIVE EagerOr(_, _, _, _, _, _, _)
EagerOr(elems, i, l, e, cred, seen, any) ==
    IF i > Len(elems)
    THEN [ret |-> any, ext |-> e, probed |-> seen]
    ELSE LET r == PrimitiveAuthorized(elems[i], l, e, cred)
         IN  EagerOr(elems, i + 1, l, r.ext, cred, Append(seen, i), any \/ r.ret)

TupleAuthorizedEager(elems, l, e, cred) == EagerOr(elems, 1, l, e, cred, <<>>, FALSE)

VecAuthorizedEager(elems, l, e, cred) == EagerOr(elems, 1, l, e, cred, <<>>, FALSE)

\* impl_proxy_auth_sync_tuple: $( authorized($T, ext, &credentials) )||+
TupleAuthorized(elems, l, e, cred) == OrChain(elems, 1, l, e, cred, <<>>)

\* Iterator::any over the elements from i on: stops at the first true
RECURSIVE IterAny(_, _, _, _, _, _)
IterAny(elems, i, l, e, cred, seen) ==
    IF i > Len(elems)
    THEN [ret |-> FALSE, ext |-> e, probed |-> seen]
    ELSE LET r == PrimitiveAuthorized(elems[i], l, e, cred)
         IN  IF r.ret
             THEN [ret |-> TRUE, ext |-> r.ext, probed |-> Append(seen, i)]
             ELSE IterAny(elems, i + 1, l, r.ext, cred, Append(seen, i))

\* impl ProxyAuthoritySync<C, L> for Vec<T>: self.iter().any(|t| t.authorized(ext, credentials))
VecAuthorized(elems, l, e, cred) == IterAny(elems, 1, l, e, cred, <<>>)

\* ProxyAuthoritySync::authorized on the authority as constructed
SyncAuthorized(cont, elems, l, e, cred) ==
    CASE cont = "single" ->
            LET r == PrimitiveAuthorized(elems[1], l, e, cred)
            IN  [ret |-> r.ret, ext |-> r.ext, probed |-> <<1>>]
      [] cont = "tuple" -> TupleAuthorized(elems, l, e, cred)
      [] cont = "vec" -> VecAuthorized(elems, l, e, cred)

\* impl ProxyAuthority<C, L> for A: a fresh Extensions, Some(ext) iff the
\* synchronous call returned true
AsyncAuthorized(cont, elems, l, cred) ==
    LET r == SyncAuthorized(cont, elems, l, EmptyExt, cred)
    IN  [facts |-> IF r.ret THEN Some(r.ext) ELSE None, probed |-> r.probed]

----------------------------------------------------------------------------
(* The calls on an authority.                                              *)

\* a caller invokes ProxyAuthoritySync::authorized with its own Extensions
CallSync ==
    /\ pc = "ready"
    /\ container # "none"
    /\ LET r == SyncAuthorized(container, authority, label, ext, credentials)
       IN  /\ ret' = r.ret
           /\ ext' = r.ext
           /\ probed' = r.probed
    /\ pc' = "sync"
    /\ UNCHANGED <<authority, container, label, credentials, facts>>
    /\ UNCHANGED pathVars

\* a caller invokes (and awaits) ProxyAuthority::authorized
CallAsync ==
    /\ pc = "ready"
    /\ container # "none"
    /\ LET r == AsyncAuthorized(container, authority, label, credentials)
       IN  /\ facts' = r.facts
           /\ probed' = r.probed
    /\ pc' = "async"
    /\ UNCHANGED <<authority, container, label, credentials, ext, ret>>
    /\ UNCHANGED pathVars

NextAuth == CallSync \/ CallAsync

\* what the path variables hold while an authority is exercised
NoPath ==
    /\ pattern = <<>>
    /\ matcher = [kind |-> "Literal", literal |-> <<>>, fragments |-> <<>>]
    /\ path = <<>>
    /\ result = None
    /\ projected = None

Kinds == {"Basic", "StrPair", "StringPair"}
Labels == {"unit", "UsernameConfig"}

Records(kinds, names, passwords) ==
    [kind : kinds, username : names, password : passwords]

Tuples(S, maxlen) == UNION {[1..n -> S] : n \in 1..maxlen}

\* an Extensions that earlier layers already wrote into
StaleExt == [basic |-> Some(Basic(<<"s">>, <<"s">>)), filter |-> None, uri |-> None]

\* Compositions: tuples (one element or more) and Vecs (possibly empty) of
\* records, called with plain and filter-carrying usernames.
CompNames == {<<"u">>, <<"v">>}
CompPasswords == {<<"p">>, <<"q">>}
CompUsernames == CompNames \cup {<<"u", "-", "d">>}

InitComp ==
    /\ pc = "ready"
    /\ container \in {"tuple", "vec"}
    /\ label \in Labels
    /\ authority \in
          (IF container = "vec" THEN {<<>>} ELSE {})
          \cup Tuples(Records({"StrPair"}, CompNames, CompPasswords), MaxAuth)
    /\ credentials \in [username : CompUsernames, password : CompPasswords]
    /\ ext \in {EmptyExt, StaleExt}
    /\ ret = FALSE
    /\ probed = <<>>
    /\ facts = None
    /\ NoPath

SpecComp == InitComp /\ [][NextAuth]_vars

\* Primitive records of every kind, called with usernames in both cases and
\* with every directive list up to MaxDirLen characters.
PrimNames == {<<"u">>, <<"U">>, <<"u", "-", "u">>}
PrimPasswords == {<<"p">>, <<"P">>}
DirAlphabet == {"d", "c", "=", "u", ","}
PrimUsernames ==
    PrimNames \cup {n \o <<Delim>> \o d : n \in PrimNames, d \in Strings(DirAlphabet, MaxDirLen)}

InitPrim ==
    /\ pc = "ready"
    /\ container = "single"
    /\ label \in Labels
    /\ authority \in {<<r>> : r \in Records(Kinds, PrimNames, PrimPasswords)}
    /\ credentials \in [username : PrimUsernames, password : PrimPasswords]
    /\ ext = EmptyExt
    /\ ret = FALSE
    /\ probed = <<>>
    /\ facts = None
    /\ NoPath

SpecPrim == InitPrim /\ [][NextAuth]_vars

----------------------------------------------------------------------------
(* Properties of the authorities.                                          *)

\* element i, called on its own, authorizes the presented credential
Accepts(i) == PrimitiveAuthorized(authority[i], label, EmptyExt, credentials).ret
Accepting == {i \in 1..Len(authority) : Accepts(i)}
FirstAccepting == CHOOSE i \in Accepting : \A j \in Accepting : i <= j
UpTo(n) == [i \in 1..n |-> i]
Called == pc \in {"sync", "async"}
Returned == IF pc = "sync" THEN ret ELSE IsSome(facts)

C2_VecStopsAtFirstAccepting ==
    [][(container = "vec" /\ pc = "ready" /\ pc' = "sync") =>
          IF Accepting = {}
          THEN /\ probed' = UpTo(Len(authority))
               /\ ret' = FALSE
               /\ ext' = ext
          ELSE /\ probed' = UpTo(FirstAccepting)
               /\ ret' = TRUE
               /\ ext' = PrimitiveAuthorized(authority[FirstAccepting], label,
                                             ext, credentials).ext]_vars

\* a Vec of three whose first element rejects and whose two others both accept
C2_Witness ==
    /\ pc = "sync"
    /\ container = "vec"
    /\ Len(authority) = 3
    /\ Accepting = {2, 3}
    /\ probed = <<1, 2>>
    /\ ret
    /\ ext.basic = Some(Basic(authority[2].username, authority[2].password))

Stored == authority[1]
StoredBasic == Basic(Stored.username, Stored.password)
ExactMatch ==
    /\ credentials.username = Stored.username
    /\ credentials.password = Stored.password
OnlyBasic(b) == [EmptyExt EXCEPT !.basic = Some(b)]

\* C3: without a filter configuration a primitive record authorizes iff the
\* presented username and password both equal the stored ones exactly; on
\* success the context holds the Basic credential of the stored pair, on
\* failure the asynchronous form yields None and nothing is written.
C3_ExactMatchWithoutFilter ==
    (container = "single" /\ label = "unit") =>
        /\ pc = "sync" =>
              /\ ret = ExactMatch
              /\ ext = IF ExactMatch THEN OnlyBasic(StoredBasic) ELSE EmptyExt
        /\ pc = "async" =>
              facts = IF ExactMatch THEN Some(OnlyBasic(StoredBasic)) ELSE None

\* a record called with its own pair, through the asynchronous form
C3_Witness ==
    /\ pc = "async"
    /\ container = "single"
    /\ label = "unit"
    /\ ExactMatch
    /\ facts = Some(OnlyBasic(StoredBasic))

\* C4: under a filter configuration a presented password that differs from
\* the stored one never authorizes, whatever the presented username, and
\* neither a Basic credential nor filter metadata is written.
C4_WrongPasswordNeverAuthorizes ==
    (container = "single" /\ label = "UsernameConfig"
        /\ credentials.password # Stored.password) =>
        /\ pc = "sync" => (~ret /\ ext = EmptyExt)
        /\ pc = "async" => facts = None

\* the username parses to the stored one with metadata, the password is wrong
C4_Witness ==
    /\ pc = "sync"
    /\ container = "single"
    /\ label = "UsernameConfig"
    /\ credentials.password # Stored.password
    /\ LET t == UsernameConfigParse(credentials.username)
       IN  t.ok /\ t.username = Stored.username /\ IsSome(t.filter)
    /\ ~ret

HasDelim(s) == contains(s, {Delim})
\* the presented username is the stored one, the delimiter, then directives
StoredThenDirectives ==
    /\ Len(credentials.username) > Len(Stored.username)
    /\ SubSeq(credentials.username, 1, Len(Stored.username)) = Stored.username
    /\ credentials.username[Len(Stored.username) + 1] = Delim
\* what the call returned and left in the context
Outcome == IF pc = "sync" THEN [ret |-> ret, ext |-> ext]
           ELSE [ret |-> IsSome(facts), ext |-> IF IsSome(facts) THEN Unwrap(facts) ELSE EmptyExt]
FilterCase == Called /\ container = "single" /\ label = "UsernameConfig"
                     /\ credentials.password = Stored.password

\* the three cases of C5
C5_Cases ==
    /\ StoredThenDirectives =>
          /\ Outcome.ret
          /\ Outcome.ext.basic = Some(StoredBasic)
          /\ Outcome.ext.filter = UsernameConfigParse(credentials.username).filter
    /\ credentials.username = Stored.username /\ ~HasDelim(Stored.username) =>
          /\ Outcome.ret
          /\ Outcome.ext = OnlyBasic(StoredBasic)
    /\ credentials.username # Stored.username /\ ~HasDelim(credentials.username) =>
          ~Outcome.ret

\* C5 (as stated): with stored (u, p) under a filter configuration and the
\* password p presented, u<delim>directives authorizes with Basic (u, p) in
\* the context and the metadata there iff the grammar produced some; u alone
\* authorizes with Basic (u, p) and no metadata; another plain username does not.
C5_FilterAuthorizes == FilterCase => C5_Cases

\* C5 (amended): the same, for a stored username u that does not contain the
\* delimiter.
C5_FilterAuthorizesDelimiterFreeStored ==
    (FilterCase /\ ~HasDelim(Stored.username)) => C5_Cases

\* the stored name followed by a directive that yields metadata
C5_Witness ==
    /\ FilterCase
    /\ pc = "async"
    /\ ~HasDelim(Stored.username)
    /\ StoredThenDirectives
    /\ IsSome(facts)
    /\ IsSome(Unwrap(facts).filter)
    /\ Unwrap(facts).basic = Some(StoredBasic)

----------------------------------------------------------------------------
(* percent_encoding::percent_decode(..).decode_utf8()                      *)

HexDigits == <<"0", "1", "2", "3", "4", "5", "6", "7", "8", "9",
               "a", "b", "c", "d", "e", "f", "A", "B", "C", "D", "E", "F">>
IsHex(c) == \E i \in 1..Len(HexDigits) : HexDigits[i] = c
HexValue(c) ==
    LET i == CHOOSE k \in 1..Len(HexDigits) : HexDigits[k] = c
    IN  IF i <= 16 THEN i - 1 ELSE i - 7

\* the characters of the model that have a name, with their code points
KnownChars ==
    {<<" ", 32>>, <<"%", 37>>, <<"*", 42>>, <<",", 44>>, <<"-", 45>>, <<"/", 47>>,
     <<"0", 48>>, <<"1", 49>>, <<"2", 50>>, <<"3", 51>>, <<"4", 52>>, <<"5", 53>>,
     <<"6", 54>>, <<"7", 55>>, <<"8", 56>>, <<"9", 57>>, <<":", 58>>, <<"=", 61>>,
     <<"A", 65>>, <<"B", 66>>, <<"C", 67>>, <<"D", 68>>, <<"E", 69>>, <<"F", 70>>,
     <<"a", 97>>, <<"b", 98>>, <<"c", 99>>, <<"d", 100>>, <<"e", 101>>, <<"f", 102>>,
     <<"U+00C9", 201>>, <<"U+00E9", 233>>}

CodePoint(c) == (CHOOSE k \in KnownChars : k[1] = c)[2]
CharOf(cp) ==
    IF \E k \in KnownChars : k[2] = cp
    THEN (CHOOSE k \in KnownChars : k[2] = cp)[1]
    ELSE "#" \o ToString(cp)

\* the UTF-8 bytes of a character
Utf8Bytes(c) ==
    LET cp == CodePoint(c)
    IN  IF cp < 128 THEN <<cp>> ELSE <<192 + (cp \div 64), 128 + (cp % 64)>>

\* percent_decode: %XY with two hex digits becomes the byte, all else its own bytes
RECURSIVE percent_decode(_)
percent_decode(s) ==
    IF s = <<>> THEN <<>>
    ELSE IF Head(s) = "%" /\ Len(s) >= 3 /\ IsHex(s[2]) /\ IsHex(s[3])
         THEN <<16 * HexValue(s[2]) + HexValue(s[3])>> \o percent_decode(SubSeq(s, 4, Len(s)))
         ELSE Utf8Bytes(Head(s)) \o percent_decode(Tail(s))

IsCont(b) == b \in 128..191

\* the length of the well-formed UTF-8 sequence the bytes start with, 0 if none
Utf8SeqLen(bs) ==
    LET b == bs[1]
        n == Len(bs)
    IN  CASE b < 128 -> 1
          [] b \in 194..223 -> IF n >= 2 /\ IsCont(bs[2]) THEN 2 ELSE 0
          [] b \in 224..239 ->
                IF /\ n >= 3
                   /\ bs[2] \in (IF b = 224 THEN 160..191 ELSE IF b = 237 THEN 128..159 ELSE 128..191)
                   /\ IsCont(bs[3])
                THEN 3 ELSE 0
          [] b \in 240..244 ->
                IF /\ n >= 4
                   /\ bs[2] \in (IF b = 240 THEN 144..191 ELSE IF b = 244 THEN 128..143 ELSE 128..191)
                   /\ IsCont(bs[3])
                   /\ IsCont(bs[4])
                THEN 4 ELSE 0
          [] OTHER -> 0

Utf8CodePoint(bs, n) ==
    CASE n = 1 -> bs[1]
      [] n = 2 -> (bs[1] - 192) * 64 + (bs[2] - 128)
      [] n = 3 -> (bs[1] - 224) * 4096 + (bs[2] - 128) * 64 + (bs[3] - 128)
      [] n = 4 -> (bs[1] - 240) * 262144 + (bs[2] - 128) * 4096
                     + (bs[3] - 128) * 64 + (bs[4] - 128)

\* Cow::decode_utf8: Some(string) when the bytes are well-formed UTF-8
RECURSIVE decode_utf8(_)
decode_utf8(bs) ==
    IF bs = <<>> THEN Some(<<>>)
    ELSE LET n == Utf8SeqLen(bs)
         IN  IF n = 0 THEN None
             ELSE LET rest == decode_utf8(SubSeq(bs, n + 1, Len(bs)))
                  IN  IF IsSome(rest)
                      THEN Some(<<CharOf(Utf8CodePoint(bs, n))>> \o Unwrap(rest))
                      ELSE None

\* percent_decode(segment).decode_utf8().unwrap_or_else(|_| segment.to_owned())
DecodeSegment(segment) ==
    LET d == decode_utf8(percent_decode(segment))
    IN  IF IsSome(d) THEN Unwrap(d) ELSE segment

----------------------------------------------------------------------------
(* UriParams.                                                              *)

\* UriParams::default()
DefaultUriParams == [params |-> None, glob |-> None]

\* HashMap::new() and HashMap::insert: a later insert of a name overwrites
EmptyMap == [n \in {} |-> <<>>]
MapInsert(m, name, value) ==
    [n \in DOMAIN m \cup {name} |-> IF n = name THEN value ELSE m[n]]

\* the value put into the map only when there is one already
insert_into_present(p, name, value) ==
    IF IsSome(p.params)
    THEN [p EXCEPT !.params = Some(MapInsert(Unwrap(p.params), name, value))]
    ELSE p

\* UriParams::insert
insert(p, name, value) ==
    [p EXCEPT !.params =
        Some(MapInsert(IF IsSome(p.params) THEN Unwrap(p.params) ELSE EmptyMap, name, value))]

\* the separator left out between the segments of the glob
append_glob_unseparated(p, value) ==
    IF IsSome(p.glob)
    THEN [p EXCEPT !.glob = Some(Unwrap(p.glob) \o value)]
    ELSE [p EXCEPT !.glob = Some(<<"/">> \o value)]

\* UriParams::append_glob
append_glob(p, value) ==
    IF IsSome(p.glob)
    THEN [p EXCEPT !.glob = Some(Unwrap(p.glob) \o <<"/">> \o value)]
    ELSE [p EXCEPT !.glob = Some(<<"/">> \o value)]

\* T::deserialize(de::PathDeserializer::new(&params)): Ok, or the error of a
\* captured string that does not convert to its field
Project(params, converts) ==
    IF converts
    THEN [ok |-> TRUE, error |-> "none"]
    ELSE [ok |-> FALSE, error |-> "FieldConversion"]

\* UriParams::deserialize
deserialize(p, converts) ==
    IF IsSome(p.params)
    THEN Project(Unwrap(p.params), converts)
    ELSE [ok |-> FALSE, error |-> "NoParams"]

----------------------------------------------------------------------------
(* PathFilter.                                                             *)

Literal(text) == [tag |-> "Literal", text |-> text]
Param(name) == [tag |-> "Param", text |-> name]
Glob == [tag |-> "Glob", text |-> <<>>]

LiteralMatcher(literal) == [kind |-> "Literal", literal |-> literal, fragments |-> <<>>]
FragmentList(fragments) == [kind |-> "FragmentList", literal |-> <<>>, fragments |-> fragments]

\* the closure with a "*" part made a Glob wherever it stands
ClassifyGlobAnywhere(index, s, fragment_length) ==
    IF s[1] = ":"
    THEN Param(to_lowercase(trim_start_matches(s, ":")))
    ELSE IF s = <<"*">>
         THEN Glob
         ELSE Literal(to_lowercase(s))

\* the closure of filter_map in PathFilter::new, for the part s at index
Classify(index, s, fragment_length) ==
    IF s[1] = ":"
    THEN Param(to_lowercase(trim_start_matches(s, ":")))
    ELSE IF s = <<"*">> /\ index = fragment_length - 1
         THEN Glob
         ELSE Literal(to_lowercase(s))

\* PathFilter::new
new(p) ==
    LET trimmed == trim_matches(trim(p), "/")
    IN  IF ~contains(trimmed, {":", "*"})
        THEN LiteralMatcher(to_lowercase(trimmed))
        ELSE LET path_parts == FilterNonEmpty(split(trimmed, "/"))
                 fragment_length == Len(path_parts)
             IN  IF fragment_length = 1 /\ Len(path_parts[1]) = 0
                 THEN FragmentList(<<Glob>>)
                 ELSE FragmentList([i \in 1..fragment_length |->
                                        Classify(i - 1, path_parts[i], fragment_length)])

\* the two ways the loop of matches_path ends; params is the local at that point
Mismatch(params) == [matched |-> FALSE, params |-> params]
Matched(params) == [matched |-> TRUE, params |-> params]

\* a trailing Glob that consumed nothing accepted at the end of the path
FragmentLeftGlobAccepted(fragments, i, params) ==
    IF i = Len(fragments) /\ fragments[i].tag = "Glob"
    THEN Matched(params)
    ELSE Mismatch(params)

\* the arm `_ => return None`: the path is exhausted and fragment i is left
FragmentLeft(fragments, i, params) == Mismatch(params)

\* an empty segment captured like any other
ParamArmEmptyCaptured(name, segment, params) ==
    [stop |-> FALSE, params |-> insert(params, name, DecodeSegment(segment))]

\* the arm PathFragment::Param(name): stop is the early `return None`
ParamArm(name, segment, params) ==
    IF Len(segment) = 0
    THEN [stop |-> TRUE, params |-> params]
    ELSE [stop |-> FALSE, params |-> insert(params, name, DecodeSegment(segment))]

\* the loop of matches_path over the zipped, None-padded iterators, from pair i on
RECURSIVE Walk(_, _, _, _)
Walk(segments, fragments, i, params) ==
    LET hasSegment == i <= Len(segments)
        hasFragment == i <= Len(fragments)
    IN  CASE hasSegment /\ hasFragment ->
                LET segment == segments[i]
                    fragment == fragments[i]
                IN  (CASE fragment.tag = "Literal" ->
                            IF ~eq_ignore_ascii_case(fragment.text, segment)
                            THEN Mismatch(params)
                            ELSE Walk(segments, fragments, i + 1, params)
                       [] fragment.tag = "Param" ->
                            LET r == ParamArm(fragment.text, segment, params)
                            IN  IF r.stop THEN Mismatch(r.params)
                                ELSE Walk(segments, fragments, i + 1, r.params)
                       [] fragment.tag = "Glob" ->
                            Walk(segments, fragments, i + 1, append_glob(params, segment)))
          [] ~hasSegment /\ ~hasFragment -> Matched(params)
          [] hasSegment /\ ~hasFragment ->
                IF ~IsSome(params.glob)
                THEN Mismatch(params)
                ELSE Walk(segments, fragments, i + 1, append_glob(params, segments[i]))
          [] OTHER -> FragmentLeft(fragments, i, params)

\* only the leading slashes trimmed
TrimPathLeadingOnly(p) == trim_start_matches(trim(p), "/")

\* the request path as matches_path trims it
TrimPath(p) == trim_matches(trim(p), "/")

\* the run over a plain zip, which ends with the shorter of the two sides
MatchRunPlainZip(m, p) ==
    LET trimmed == TrimPath(p)
        segments == split(trimmed, "/")
        n == IF Len(segments) < Len(m.fragments) THEN Len(segments) ELSE Len(m.fragments)
    IN  IF m.kind = "Literal"
        THEN IF eq_ignore_ascii_case(m.literal, trimmed)
             THEN Matched(DefaultUriParams)
             ELSE Mismatch(DefaultUriParams)
        ELSE Walk(SubSeq(segments, 1, n), SubSeq(m.fragments, 1, n), 1, DefaultUriParams)

\* the run of matches_path, with the local params as the run left them
MatchRun(m, p) ==
    LET trimmed == TrimPath(p)
    IN  IF m.kind = "Literal"
        THEN IF eq_ignore_ascii_case(m.literal, trimmed)
             THEN Matched(DefaultUriParams)
             ELSE Mismatch(DefaultUriParams)
        ELSE Walk(split(trimmed, "/"), m.fragments, 1, DefaultUriParams)

\* PathFilter::matches_path
matches_path(m, p) ==
    LET r == MatchRun(m, p)
    IN  IF r.matched THEN Some(r.params) ELSE None

\* whatever the run accumulated is inserted, match or not
matches_partial(m, e, p) ==
    LET r == MatchRun(m, p)
    IN  [ret |-> r.matched, ext |-> ExtInsert(e, "uri", r.params)]

\* impl Matcher for PathFilter: matches
matches(m, e, p) ==
    LET r == matches_path(m, p)
    IN  IF IsSome(r)
        THEN [ret |-> TRUE, ext |-> ExtInsert(e, "uri", Unwrap(r))]
        ELSE [ret |-> FALSE, ext |-> e]

----------------------------------------------------------------------------
(* The calls on a PathFilter.                                              *)

\* a test or another matcher of the crate calls matches_path
CallMatchesPath ==
    /\ pc = "ready"
    /\ container = "none"
    /\ result' = matches_path(matcher, path)
    /\ pc' = "matches_path"
    /\ UNCHANGED <<pattern, matcher, path, ext, ret, projected>>
    /\ UNCHANGED authVars

\* the router calls Matcher::matches with the request's path
CallMatches ==
    /\ pc = "ready"
    /\ container = "none"
    /\ LET r == matches(matcher, ext, path)
       IN  /\ ret' = r.ret
           /\ ext' = r.ext
    /\ result' = matches_path(matcher, path)
    /\ pc' = "matches"
    /\ UNCHANGED <<pattern, matcher, path, projected>>
    /\ UNCHANGED authVars

NextPath == CallMatchesPath \/ CallMatches

\* a handler deserializes the UriParams of a match into its type T; converts
\* tells whether the captured strings convert to the fields of that T
CallDeserialize ==
    /\ pc \in {"matches_path", "matches"}
    /\ IsSome(result)
    /\ \E converts \in BOOLEAN :
          projected' = Some(deserialize(Unwrap(result), converts))
    /\ pc' = "deserialize"
    /\ UNCHANGED <<pattern, matcher, path, result, ext, ret>>
    /\ UNCHANGED authVars

NextParams == CallMatchesPath \/ CallMatches \/ CallDeserialize

\* what the authority variables hold while a PathFilter is exercised
NoAuth ==
    /\ authority = <<>>
    /\ container = "none"
    /\ label = "unit"
    /\ credentials = Basic(<<>>, <<>>)
    /\ probed = <<>>
    /\ facts = None

\* a PathFilter built from the pattern, and a request path
InitPathOver(patterns, paths) ==
    /\ pc = "ready"
    /\ pattern \in patterns
    /\ matcher = new(pattern)
    /\ path \in paths
    /\ result = None
    /\ projected = None
    /\ ext = EmptyExt
    /\ ret = FALSE
    /\ NoAuth

\* Patterns with params and globs against paths of one or more segments.
PatAlphabet == {"/", ":", "*", "a"}
PathAlphabet == {"/", "a", "b"}
InitPath == InitPathOver(Strings(PatAlphabet, MaxPatLen), Strings(PathAlphabet, MaxPathLen))
SpecPath == InitPath /\ [][NextPath]_vars

\* Patterns against paths that have "*" segments.
StarPathAlphabet == {"/", "*", "a"}
InitStar == InitPathOver(Strings(PatAlphabet, MaxPatLen), Strings(StarPathAlphabet, MaxPathLen))
SpecStar == InitStar /\ [][NextPath]_vars

\* The same patterns and paths, the UriParams of a match then deserialized.
SpecParams == InitPath /\ [][NextParams]_vars

\* Patterns without ':' and '*' against paths, in both cases of an ASCII and
\* of a non-ASCII letter.
LitAlphabet == {"/", "a", "A", "U+00C9"}
InitLit == InitPathOver(Strings(LitAlphabet, MaxPatLen), Strings(LitAlphabet, MaxPathLen))
SpecLit == InitLit /\ [][NextPath]_vars

\* Patterns and paths with whitespace at their ends and between their slashes.
TrimPatAlphabet == {"/", " ", ":", "*"}
TrimPathAlphabet == {"/", " ", "a"}
InitTrim ==
    InitPathOver(Strings(TrimPatAlphabet, MaxPatLen), Strings(TrimPathAlphabet, MaxPathLen))
SpecTrim == InitTrim /\ [][NextPath]_vars

----------------------------------------------------------------------------
(* Properties of the path matcher.                                         *)

MatchCalled == pc \in {"matches_path", "matches"}
Fragments == matcher.fragments
Segments == split(TrimPath(path), "/")
IsFragmentList == matcher.kind = "FragmentList"
EndsInGlob ==
    /\ IsFragmentList
    /\ Len(Fragments) >= 1
    /\ Fragments[Len(Fragments)].tag = "Glob"

\* the fragment, taken alone, lets the segment pass
FragmentAccepts(fragment, segment) ==
    CASE fragment.tag = "Literal" -> eq_ignore_ascii_case(fragment.text, segment)
      [] fragment.tag = "Param" -> Len(segment) > 0
      [] fragment.tag = "Glob" -> TRUE
PrefixAccepted(k) == \A i \in 1..k : FragmentAccepts(Fragments[i], Segments[i])

\* C6: Matcher::matches returns true iff matches_path returned a UriParams,
\* and then exactly that value is in the context; on a mismatch, also one
\* found after params or glob segments were accumulated, it returns false and
\* the context is as it was, with no UriParams in it.
C6_MatchesAllOrNothing ==
    pc = "matches" =>
        /\ ret = IsSome(result)
        /\ ext = IF IsSome(result) THEN [EmptyExt EXCEPT !.uri = result] ELSE EmptyExt

\* a mismatch found after a param or a glob segment was accumulated
C6_Witness ==
    /\ pc = "matches"
    /\ ~ret
    /\ MatchRun(matcher, path).params # DefaultUriParams
    /\ ext = EmptyExt

\* the path ends where only the trailing Glob is left, every fragment before
\* it having accepted its segment
GlobLeftOver ==
    /\ EndsInGlob
    /\ Len(Segments) = Len(Fragments) - 1
    /\ PrefixAccepted(Len(Segments))

\* C7 (as stated): when the path is exhausted and only a trailing Glob that
\* consumed no segment is left, matching succeeds and the glob capture is absent.
C7_LeftOverGlobStillMatches ==
    (pc = "matches_path" /\ GlobLeftOver) =>
        /\ IsSome(result)
        /\ Unwrap(result).glob = None

\* C7 (amended): when the path is exhausted and only a trailing Glob that
\* consumed no segment is left, matching yields none; a match of a pattern
\* ending in Glob always carries a glob capture.
C7_LeftOverGlobIsMismatch ==
    MatchCalled =>
        /\ GlobLeftOver => result = None
        /\ (EndsInGlob /\ IsSome(result)) => IsSome(Unwrap(result).glob)

\* "/a/*" against "/a": the literal accepted, the Glob left over, no match
C7_Witness ==
    /\ pc = "matches_path"
    /\ GlobLeftOver
    /\ result = None

\* equality up to case
EqualIgnoringCase(a, b) == to_lowercase(a) = to_lowercase(b)

\* C8: a pattern with neither ':' nor '*' compiles to a Literal matcher, and
\* a path matches it, with no params and no glob, iff path and pattern are
\* equal up to case once their leading and trailing '/' are trimmed; every
\* such pattern matches itself.
C8_LiteralIsCaseInsensitiveEquality ==
    (pc = "matches_path" /\ ~contains(pattern, {":", "*"})) =>
        /\ matcher.kind = "Literal"
        /\ IsSome(result) =
              EqualIgnoringCase(trim_matches(path, "/"), trim_matches(pattern, "/"))
        /\ IsSome(result) => result = Some(DefaultUriParams)
        /\ path = pattern => IsSome(result)

\* the string left once its first n '/'-separated segments are dropped
RECURSIVE DropSegments(_, _)
DropSegments(str, n) ==
    IF n = 0 THEN str
    ELSE LET i == CHOOSE k \in 1..Len(str) : str[k] = "/" /\ \A j \in 1..(k - 1) : str[j] # "/"
         IN  DropSegments(SubSeq(str, i + 1, Len(str)), n - 1)

ParamIndices == {i \in 1..Len(Fragments) : Fragments[i].tag = "Param"}
\* the params the Param fragments capture: for each name, the segment under
\* the last fragment of that name
ExpectedParams ==
    IF ParamIndices = {} THEN None
    ELSE Some([n \in {Fragments[i].text : i \in ParamIndices} |->
                 LET last == CHOOSE i \in ParamIndices :
                                /\ Fragments[i].text = n
                                /\ \A j \in ParamIndices : Fragments[j].text = n => j <= i
                 IN  DecodeSegment(Segments[last])])

\* C9: whenever a pattern ending in Glob matches, the glob capture is "/"
\* followed by the trimmed path from the Glob's segment to its end, and the
\* params of the Param fragments before the Glob are kept with it.
C9_GlobIsTheRestOfThePath ==
    (MatchCalled /\ EndsInGlob /\ IsSome(result)) =>
        /\ Unwrap(result).glob =
              Some(<<"/">> \o DropSegments(TrimPath(path), Len(Fragments) - 1))
        /\ Unwrap(result).params = ExpectedParams

\* a param captured, then a glob over two segments or more
C9_Witness ==
    /\ pc = "matches_path"
    /\ EndsInGlob
    /\ IsSome(result)
    /\ ParamIndices # {}
    /\ IsSome(Unwrap(result).params)
    /\ Len(Segments) > Len(Fragments)

\* C10: if the segment aligned with a Param fragment is empty, matches_path
\* yields none; every value of a returned params map is the (decoded)
\* non-empty segment under a Param fragment of that name.
C10_ParamNeverCapturesEmpty ==
    (MatchCalled /\ IsFragmentList) =>
        /\ (\E i \in ParamIndices : i <= Len(Segments) /\ Len(Segments[i]) = 0)
              => result = None
        /\ (IsSome(result) /\ IsSome(Unwrap(result).params)) =>
              LET m == Unwrap(Unwrap(result).params)
              IN  \A n \in DOMAIN m :
                     /\ Len(m[n]) > 0
                     /\ \E i \in ParamIndices :
                           /\ Fragments[i].text = n
                           /\ Len(Segments[i]) > 0
                           /\ m[n] = DecodeSegment(Segments[i])

\* a doubled slash puts an empty segment under a Param, after accepted fragments
C10_Witness ==
    /\ pc = "matches_path"
    /\ IsFragmentList
    /\ \E i \in ParamIndices :
          /\ i > 1
          /\ i <= Len(Segments)
          /\ Len(Segments[i]) = 0
          /\ PrefixAccepted(i - 1)
    /\ result = None

\* the string begins or ends with a whitespace character
EdgeWhitespace(str) ==
    /\ Len(str) > 0
    /\ IsWhitespace(str[1]) \/ IsWhitespace(str[Len(str)])

\* a '/' put before or after the path does not change the result
PathSlashIrrelevant ==
    /\ result = matches_path(matcher, <<"/">> \o path)
    /\ result = matches_path(matcher, path \o <<"/">>)

\* a '/' put before or after the pattern does not change whether the path matches
PatternSlashIrrelevant ==
    /\ IsSome(result) = IsSome(matches_path(new(<<"/">> \o pattern), path))
    /\ IsSome(result) = IsSome(matches_path(new(pattern \o <<"/">>), path))

\* C11 (as stated): matches_path gives the same result for "" and "/", and
\* for any path and that path with a leading or trailing '/' added or removed;
\* a leading or trailing '/' added to or removed from the pattern does not
\* change which paths match.
C11_SlashesIrrelevant ==
    pc = "matches_path" =>
        /\ path = <<>> => result = matches_path(matcher, <<"/">>)
        /\ PathSlashIrrelevant
        /\ PatternSlashIrrelevant

\* C11 (amended): the same, for a path and a pattern of which the one
\* without the added '/' neither begins nor ends with whitespace.
C11_SlashesIrrelevantWithoutEdgeWhitespace ==
    pc = "matches_path" =>
        /\ path = <<>> => result = matches_path(matcher, <<"/">>)
        /\ ~EdgeWhitespace(path) => PathSlashIrrelevant
        /\ ~EdgeWhitespace(pattern) => PatternSlashIrrelevant

\* a path between slashes that matches a fragment list with a capture
C11_Witness ==
    /\ pc = "matches_path"
    /\ Len(path) >= 3
    /\ path[1] = "/"
    /\ path[Len(path)] = "/"
    /\ ~EdgeWhitespace(pattern)
    /\ IsFragmentList
    /\ IsSome(result)
    /\ Unwrap(result) # DefaultUriParams
    /\ result = matches_path(matcher, SubSeq(path, 2, Len(path) - 1))

\* C12: deserialize fails with NoParams exactly when no named parameter was
\* captured, and in the UriParams of a match the params map is absent iff
\* the compiled pattern has no Param fragment.
C12_NoParamsIffNoParamFragment ==
    (pc \in {"matches_path", "matches", "deserialize"} /\ IsSome(result)) =>
        /\ IsSome(Unwrap(result).params) = (ParamIndices # {})
        /\ pc = "deserialize" =>
              /\ IsSome(projected)
              /\ (Unwrap(projected).error = "NoParams") = ~IsSome(Unwrap(result).params)
              /\ (Unwrap(projected).error = "NoParams") = (ParamIndices = {})

\* a match of a pattern with a Param fragment, deserialized without NoParams
C12_Witness ==
    /\ pc = "deserialize"
    /\ ParamIndices # {}
    /\ IsSome(Unwrap(result).params)
    /\ Unwrap(projected).ok

\* the non-empty tokens of the pattern string
Tokens == FilterNonEmpty(split(trim_matches(trim(pattern), "/"), "/"))
HasStar(token) == contains(token, {"*"})
GlobOnlyLast ==
    /\ Len(Fragments) = Len(Tokens)
    /\ \A i \in 1..Len(Fragments) : Fragments[i].tag = "Glob" => i = Len(Fragments)
\* a "*" token before the last one is the literal "*", which lets only the
\* segment "*" pass
EarlyStarIsLiteral ==
    \A i \in 1..(Len(Tokens) - 1) :
        Tokens[i] = <<"*">> =>
            /\ Fragments[i] = Literal(<<"*">>)
            /\ IsSome(result) => (Len(Segments) >= i /\ Segments[i] = <<"*">>)

\* C13 (as stated): a Glob fragment is the last one and the only one; a "*"
\* token before the last is the literal "*", matching only a segment "*";
\* every token that has a "*" in it and is not just "*" compiles to a literal.
C13_StarTokenIsLiteral ==
    (pc = "matches_path" /\ IsFragmentList) =>
        /\ GlobOnlyLast
        /\ EarlyStarIsLiteral
        /\ \A i \in 1..Len(Tokens) :
              (HasStar(Tokens[i]) /\ Tokens[i] # <<"*">>) => Fragments[i].tag = "Literal"

\* C13: a Glob fragment is the last one and the only one; a "*" token before
\* the last is the literal "*", matching only a segment "*"; a token that has
\* a "*" in it and is not just "*" compiles to a literal when it does not
\* start with ':' and to a Param when it does, never to a Glob.
C13_StarTokenIsLiteralUnlessParam ==
    (pc = "matches_path" /\ IsFragmentList) =>
        /\ GlobOnlyLast
        /\ EarlyStarIsLiteral
        /\ \A i \in 1..Len(Tokens) :
              (HasStar(Tokens[i]) /\ Tokens[i] # <<"*">>) =>
                  Fragments[i].tag = (IF Tokens[i][1] = ":" THEN "Param" ELSE "Literal")

\* a pattern with "*" before its last token matched by a path with a "*" segment
C13_Witness ==
    /\ pc = "matches_path"
    /\ IsFragmentList
    /\ \E i \in 1..(Len(Tokens) - 1) : Tokens[i] = <<"*">>
    /\ IsSome(result)

\* the number of '/'-separated segments of the trimmed path
SegmentCount ==
    LET trimmed == TrimPath(path)
    IN  Cardinality({i \in 1..Len(trimmed) : trimmed[i] = "/"}) + 1

\* C14: a fragment list that does not end in Glob matches only a path with
\* exactly as many segments as it has fragments, so fewer and extra segments
\* both give none; a path with more segments than fragments matches only
\* when the last fragment is a Glob, whose capture has then been started.
C14_SegmentCountDiscipline ==
    (pc = "matches_path" /\ IsFragmentList) =>
        /\ (~EndsInGlob /\ SegmentCount # Len(Fragments)) => ~IsSome(result)
        /\ (IsSome(result) /\ SegmentCount > Len(Fragments)) =>
              /\ EndsInGlob
              /\ IsSome(Unwrap(result).glob)

\* a list of two fragments without a Glob matched by a path of two segments
C14_Witness ==
    /\ pc = "matches_path"
    /\ IsFragmentList
    /\ ~EndsInGlob
    /\ Len(Fragments) >= 2
    /\ SegmentCount = Len(Fragments)
    /\ IsSome(result)

====
